---- MODULE Spec2Model ----
(***************************************************************************)
(* LSB steganography page (src/script.js): a canvas, the module-level      *)
(* imageData buffer, and the click / upload handlers that embed a message  *)
(* into the red-channel LSBs and read it back.                             *)
(*                                                                         *)
(* Representation.  A JavaScript string is a sequence of character codes,  *)
(* a binary string is a sequence of the digits 0 and 1, and                *)
(* ImageData.data (a Uint8ClampedArray) is a sequence of channel values;   *)
(* JavaScript index i is TLA+ index i + 1.  The canvas bitmap is modelled  *)
(* as an exact store of 8-bit RGBA values: putImageData followed by        *)
(* getImageData returns the values written.                                *)
(***************************************************************************)
EXTENDS Integers, Sequences, FiniteSets, TLC

VARIABLES
    imageData,    \* script.js:15   let imageData  (set = FALSE: undefined)
    canvas,       \* script.js:2    the canvas element and its bitmap
    textContent,  \* script.js:11   decodedMessageOutput.textContent
    lastOp,       \* the handler that ran last, its input, outcome and alert
    binary,       \* script.js:91   argument of binaryToString
    str           \* script.js:92   value returned by binaryToString

vars == <<imageData, canvas, textContent, lastOp, binary, str>>

(***************************************************************************)
(* Bounds of the model.                                                    *)
(***************************************************************************)
MaxBits == 16

(***************************************************************************)
(* Program constants.                                                      *)
(***************************************************************************)
\* script.js:14  const delimiter = '|||END|||'
delimiter == <<124, 124, 124, 69, 78, 68, 124, 124, 124>>

\* script.js:37  const blockSize = 20
blockSize == 20

\* script.js:222  `Partial message (no delimiter found): `
PartialPrefix ==
    <<80, 97, 114, 116, 105, 97, 108, 32, 109, 101, 115, 115, 97, 103, 101,
      32, 40, 110, 111, 32, 100, 101, 108, 105, 109, 105, 116, 101, 114, 32,
      102, 111, 117, 110, 100, 41, 58, 32>>

\* script.js:225  "No readable message could be decoded."
NoReadableText ==
    <<78, 111, 32, 114, 101, 97, 100, 97, 98, 108, 101, 32, 109, 101, 115,
      115, 97, 103, 101, 32, 99, 111, 117, 108, 100, 32, 98, 101, 32, 100,
      101, 99, 111, 100, 101, 100, 46>>

(***************************************************************************)
(* JavaScript primitives used by the script.                               *)
(***************************************************************************)
Min(a, b) == IF a <= b THEN a ELSE b

\* Number.prototype.toString(2) of a non-negative integer
RECURSIVE toString2(_)
toString2(n) == IF n < 2 THEN <<n>> ELSE Append(toString2(n \div 2), n % 2)

\* padStart that pads nothing
padStart_None(s, targetLength) == s

\* String.prototype.padStart(targetLength, '0')
padStart(s, targetLength) ==
    IF Len(s) >= targetLength THEN s
    ELSE [k \in 1..(targetLength - Len(s)) |-> 0] \o s

\* parseInt(byte, 2) of a string of binary digits
RECURSIVE parseInt2(_)
parseInt2(bits) ==
    IF bits = <<>> THEN 0
    ELSE 2 * parseInt2(SubSeq(bits, 1, Len(bits) - 1)) + bits[Len(bits)]

\* String.fromCharCode(code): the UTF-16 code unit code mod 2^16
fromCharCode(code) == code % 65536

\* String.prototype.substr(start, length)
substr(s, start, length) == SubSeq(s, start + 1, Min(start + length, Len(s)))

\* slice starting one character late
slice_Late(s, start) == SubSeq(s, start + 2, Len(s))

\* String.prototype.slice(start) with 0 <= start
slice(s, start) == SubSeq(s, start + 1, Len(s))

\* String.prototype.substring(0, end)
substring0(s, end) == SubSeq(s, 1, end)

\* String.prototype.endsWith(suffix)
endsWith(s, suffix) ==
    /\ Len(s) >= Len(suffix)
    /\ SubSeq(s, Len(s) - Len(suffix) + 1, Len(s)) = suffix

\* a & b and a | b on non-negative integers
RECURSIVE BitAnd(_, _)
BitAnd(a, b) ==
    IF a = 0 \/ b = 0 THEN 0
    ELSE (a % 2) * (b % 2) + 2 * BitAnd(a \div 2, b \div 2)

RECURSIVE BitOr(_, _)
BitOr(a, b) ==
    IF a = 0 THEN b
    ELSE IF b = 0 THEN a
    ELSE (IF a % 2 = 1 \/ b % 2 = 1 THEN 1 ELSE 0)
             + 2 * BitOr(a \div 2, b \div 2)

(***************************************************************************)
(* stringToBinary, script.js:73-82                                         *)
(***************************************************************************)
RECURSIVE stringToBinaryLoop(_, _, _)
stringToBinaryLoop(s, i, bin) ==
    IF i < Len(s)
    THEN stringToBinaryLoop(s, i + 1, bin \o padStart(toString2(s[i + 1]), 8))
    ELSE bin

stringToBinary(s) == stringToBinaryLoop(s, 0, <<>>)

(***************************************************************************)
(* binaryToString, script.js:91-100                                        *)
(***************************************************************************)
RECURSIVE binaryToStringLoop(_, _, _)
binaryToStringLoop(bin, i, out) ==
    IF i < Len(bin)
    THEN LET byte == substr(bin, i, 8)
         IN  IF Len(byte) # 8 THEN out
             ELSE binaryToStringLoop(bin, i + 8,
                                     Append(out, fromCharCode(parseInt2(byte))))
    ELSE out

\* binaryToString that also converts the incomplete last group
binaryToString_KeepPartial(bin) ==
    binaryToStringLoop(bin, 0, <<>>)
      \o ( IF Len(bin) % 8 = 0 THEN <<>>
           ELSE <<fromCharCode(parseInt2(
                      SubSeq(bin, 8 * (Len(bin) \div 8) + 1, Len(bin))))>> )

binaryToString(bin) == binaryToStringLoop(bin, 0, <<>>)

(***************************************************************************)
(* Canvas 2D context operations on the whole bitmap.                       *)
(***************************************************************************)
\* data index (1-based) of channel c of pixel (x, y) in a bitmap of width w
Index(w, x, y, c) == (y * w + x) * 4 + c + 1

\* ctx.getImageData(0, 0, canvas.width, canvas.height) throws when the
\* bitmap is empty (IndexSizeError) or may not be read (SecurityError, or
\* the "other issues" of script.js:269).
getImageDataThrows(cv) == cv.width = 0 \/ cv.height = 0 \/ ~cv.readable

\* ctx.getImageData(0, 0, canvas.width, canvas.height)
getImageData(cv) ==
    [set |-> TRUE, width |-> cv.width, height |-> cv.height, data |-> cv.data]

\* ctx.putImageData(img, 0, 0): writes img over the bitmap, clipped to it
putImageData(cv, img) ==
    [cv EXCEPT !.data =
        [j \in 1..Len(cv.data) |->
            LET p == (j - 1) \div 4
                c == (j - 1) % 4
                x == p % cv.width
                y == p \div cv.width
            IN  IF x < img.width /\ y < img.height
                THEN img.data[Index(img.width, x, y, c)]
                ELSE cv.data[j]]]

\* script.js:253-260  canvas.width = img.width; canvas.height = img.height;
\* clearRect; drawImage(img, 0, 0).  The bitmap of a canvas that script
\* cannot read back is not tracked (data stays empty): getImageData and
\* toDataURL both throw on it, so nothing in the page observes it.
drawImage(img) ==
    [width |-> img.width, height |-> img.height, readable |-> img.readable,
     data |-> IF img.readable THEN img.data ELSE <<>>]

\* ctx.fillStyle = 'white'; ctx.fillRect(0, 0, canvas.width, canvas.height)
fillWhite(cv) == [cv EXCEPT !.data = [j \in 1..Len(cv.data) |-> 255]]

\* number of iterations of  for (let x = 0; x < extent / blockSize; x++)
numBlocks(extent) == (extent + blockSize - 1) \div blockSize

\* the (x, y) loop indices of script.js:46-47
Blocks(cv) ==
    (0..(numBlocks(cv.width) - 1)) \X (0..(numBlocks(cv.height) - 1))

\* script.js:54-55  fillRect of every block with its rgb(r, g, b), opaque
fillBlocks(cv, colors) ==
    [cv EXCEPT !.data =
        [j \in 1..Len(cv.data) |->
            LET p == (j - 1) \div 4
                c == (j - 1) % 4
                x == p % cv.width
                y == p \div cv.width
            IN  IF c = 3 THEN 255
                ELSE colors[<<x \div blockSize, y \div blockSize>>][c + 1]]]

(***************************************************************************)
(* Inputs: what the user types, and the files the user picks.              *)
(***************************************************************************)
\* values of secretMessageInput.value, all of single-byte characters:
\* "", "\x00\xFF" (88 framed bits) and "abc" (96 framed bits)
Messages == { <<>>, <<0, 255>>, <<97, 98, 99>> }

\* "", "|||END|||" and "ab|||END|||cd" (176 framed bits)
LongMessages ==
    { <<>>, <<124, 124, 124, 69, 78, 68, 124, 124, 124>>,
      <<97, 98, 124, 124, 124, 69, 78, 68, 124, 124, 124, 99, 100>> }

\* values Math.floor(Math.random() * 200) + 28 takes: triples in 28..227
Colors == { <<28, 100, 227>>, <<227, 101, 28>> }

\* channel c of pixel p of a picture
PixelValue(pat, p, c) ==
    CASE pat = "ramp"  -> (51 * p + 85 * c) % 256
      [] pat = "white" -> 255
      [] OTHER         -> 0

\* a file: its type, and for an image its decoded pixels and whether the
\* canvas it is drawn on can be read afterwards
File(kind, w, h, pat, readable) ==
    [kind |-> kind, width |-> w, height |-> h, readable |-> readable,
     data |-> [j \in 1..(4 * w * h) |->
                  PixelValue(pat, (j - 1) \div 4, (j - 1) % 4)]]

\* event.target.files[0]: a 96-pixel and a 7-pixel image, and a 90-pixel
\* image after which getImageData throws
Files ==
    { File("image", 12, 8, "ramp", TRUE),
      File("image", 7, 1, "white", TRUE),
      File("image", 10, 9, "white", FALSE) }

\* a 176-pixel image, an image without pixels, and files that are rejected
\* before anything is drawn
LongFiles ==
    { File("image", 16, 11, "ramp", TRUE),
      File("image", 0, 5, "zero", TRUE),
      File("text", 0, 0, "zero", TRUE),
      File("unreadable", 0, 0, "zero", TRUE),
      File("corrupt", 0, 0, "zero", TRUE) }

\* canvas width and height attributes of the page
InitCanvas ==
    [width |-> 5, height |-> 19, readable |-> TRUE,
     data |-> [j \in 1..(4 * 5 * 19) |-> 0]]

Alert(text, args) == [text |-> text, args |-> args]
NoAlert == Alert("", <<>>)

Op(name, message, outcome, alert, i) ==
    [name |-> name, message |-> message, outcome |-> outcome,
     alert |-> alert, i |-> i]

NoImageData == [set |-> FALSE, width |-> 0, height |-> 0, data |-> <<>>]

(***************************************************************************)
(* generateAbstractImage, script.js:36-64                                  *)
(***************************************************************************)
generateAbstractImage(colors) ==
    LET painted == fillBlocks(fillWhite(canvas), colors)
    IN  /\ canvas' = painted
        /\ IF getImageDataThrows(painted)
           THEN /\ UNCHANGED imageData
                /\ lastOp' = Op("generate", <<>>, "Threw", NoAlert, 0)
           ELSE /\ imageData' = getImageData(painted)
                /\ lastOp' = Op("generate", <<>>, "Generated",
                                Alert("Abstract image generated!", <<>>), 0)
        /\ UNCHANGED <<textContent, binary, str>>

(***************************************************************************)
(* encodeMessage, script.js:109-166                                        *)
(***************************************************************************)
\* a store into a Uint8ClampedArray element
Uint8Clamped(v) == IF v < 0 THEN 0 ELSE IF v > 255 THEN 255 ELSE v

\* encodeStep writing the bit into the green channel (index i + 1)
encodeStep_Green(st, binaryMessage) ==
    IF st.done THEN st
    ELSE IF ~(st.i < Len(st.data)) THEN [st EXCEPT !.done = TRUE]
    ELSE IF st.binaryIndex >= Len(binaryMessage) THEN [st EXCEPT !.done = TRUE]
    ELSE [st EXCEPT
             !.data[st.i + 2] =
                 IF binaryMessage[st.binaryIndex + 1] = 0
                 THEN Uint8Clamped(BitAnd(@, 254))
                 ELSE Uint8Clamped(BitOr(@, 1)),
             !.i = @ + 4,
             !.binaryIndex = @ + 1]

\* script.js:141-156  one evaluation of the loop test and body; st holds
\* data, the loop variables i and binaryIndex, and whether the loop has ended
encodeStep(st, binaryMessage) ==
    IF st.done THEN st
    ELSE IF ~(st.i < Len(st.data)) THEN [st EXCEPT !.done = TRUE]
    ELSE IF st.binaryIndex >= Len(binaryMessage) THEN [st EXCEPT !.done = TRUE]
    ELSE [st EXCEPT
             !.data[st.i + 1] =
                 IF binaryMessage[st.binaryIndex + 1] = 0
                 THEN Uint8Clamped(BitAnd(@, 254))
                 ELSE Uint8Clamped(BitOr(@, 1)),
             !.i = @ + 4,
             !.binaryIndex = @ + 1]

\* n consecutive evaluations of encodeStep
RECURSIVE encodeSteps(_, _, _)
encodeSteps(n, st, binaryMessage) ==
    IF n = 0 THEN st
    ELSE IF n = 1 THEN encodeStep(st, binaryMessage)
    ELSE LET half == encodeSteps(n \div 2, st, binaryMessage)
         IN  IF half.done THEN half
             ELSE encodeSteps(n - n \div 2, half, binaryMessage)

\* script.js:140-156  the embedding loop, run to its end; returns data
encodeLoop(data, binaryMessage) ==
    encodeSteps(Len(data) \div 4 + 1,
                [data |-> data, i |-> 0, binaryIndex |-> 0, done |-> FALSE],
                binaryMessage).data

\* script.js:130  const pixelCount = canvas.width * canvas.height
pixelCount == canvas.width * canvas.height

\* script.js:131  the capacity test
tooLarge(binaryMessage) == Len(binaryMessage) > pixelCount

\* embed with the loop run before the capacity test is looked at
embed_WriteFirst(data, binaryMessage) == encodeLoop(data, binaryMessage)

\* script.js:129-156  imageData.data after the capacity test and the loop:
\* a message that is too large returns before the first write
embed(data, binaryMessage) ==
    IF tooLarge(binaryMessage) THEN data
    ELSE encodeLoop(data, binaryMessage)

\* Not with the empty string taken for a message
Not_Never(message) == FALSE

\* script.js:118  !message : a string is falsy when it is empty
Not(message) == message = <<>>

encodeMessage(message) ==
    IF ~imageData.set
    THEN /\ lastOp' = Op("encode", message, "MissingBuffer",
                         Alert("Please generate an image first!", <<>>), 0)
         /\ UNCHANGED <<imageData, canvas, textContent, binary, str>>
    ELSE IF Not(message)
    THEN /\ lastOp' = Op("encode", message, "EmptyInput",
                         Alert("Please enter a message to encode!", <<>>), 0)
         /\ UNCHANGED <<imageData, canvas, textContent, binary, str>>
    ELSE LET messageWithDelimiter == message \o delimiter
             binaryMessage == stringToBinary(messageWithDelimiter)
             mutated ==
                 [imageData EXCEPT !.data = embed(@, binaryMessage)]
         IN  IF tooLarge(binaryMessage)
             THEN /\ imageData' = mutated
                  /\ lastOp' = Op("encode", message, "CapacityExceeded",
                          Alert("Message is too large for this image size!",
                                <<>>), 0)
                  /\ UNCHANGED <<canvas, textContent, binary, str>>
             ELSE LET drawn == putImageData(canvas, mutated)
                  IN  /\ canvas' = drawn
                      /\ IF getImageDataThrows(drawn)
                         THEN /\ imageData' = mutated
                              /\ lastOp' = Op("encode", message, "Threw",
                                              NoAlert, 0)
                         ELSE /\ imageData' = getImageData(drawn)
                              /\ lastOp' = Op("encode", message, "Encoded",
                                     Alert("Message encoded successfully!",
                                           <<Len(binaryMessage), pixelCount>>),
                                     0)
                      /\ UNCHANGED <<textContent, binary, str>>

(***************************************************************************)
(* decodeMessage, script.js:177-231                                        *)
(***************************************************************************)
Extraction(outcome, text, alert, i) ==
    [outcome |-> outcome, textContent |-> text, alert |-> alert, i |-> i]

\* stripDelimiter that leaves the delimiter on the text
stripDelimiter_Keep(extractedText) == extractedText

\* script.js:210  extractedText.substring(0, extractedText.length -
\* delimiter.length)
stripDelimiter(extractedText) ==
    substring0(extractedText, Len(extractedText) - Len(delimiter))

Running == Extraction("Running", <<>>, NoAlert, 0)

\* script.js:192-230  one evaluation of the loop test and body; st holds the
\* loop variables i, binaryMessage and extractedText, and the result once
\* the function has returned
decodeStep(st, data) ==
    IF st.result.outcome # "Running" THEN st
    ELSE IF ~(st.i < Len(data))
    THEN [st EXCEPT !.result = Extraction("NoOutput", <<>>, NoAlert, st.i)]
    ELSE LET lsb == BitAnd(data[st.i + 1], 1)
             bm == Append(st.binaryMessage, lsb)
             whole == Len(bm) % 8 = 0
             text == IF whole
                     THEN Append(st.extractedText,
                              fromCharCode(parseInt2(slice(bm, Len(bm) - 8))))
                     ELSE st.extractedText
             now == [st EXCEPT !.binaryMessage = bm, !.extractedText = text]
         IN  IF whole /\ endsWith(text, delimiter)
             THEN [now EXCEPT !.result =
                      Extraction("Found", stripDelimiter(text),
                          Alert("Message successfully decoded!", <<>>), st.i)]
             ELSE IF st.i >= Len(data) - 4
             THEN IF Len(text) > 0
                  THEN [now EXCEPT !.result =
                           Extraction("NotFound", PartialPrefix \o text,
                               Alert("Warning: No end marker found.", <<>>),
                               st.i)]
                  ELSE [now EXCEPT !.result =
                           Extraction("Empty", NoReadableText,
                               Alert("No hidden message found or message format is corrupted.",
                                     <<>>), st.i)]
             ELSE [now EXCEPT !.i = @ + 4]

\* n consecutive evaluations of decodeStep
RECURSIVE decodeSteps(_, _, _)
decodeSteps(n, st, data) ==
    IF n = 0 THEN st
    ELSE IF n = 1 THEN decodeStep(st, data)
    ELSE LET half == decodeSteps(n \div 2, st, data)
         IN  IF half.result.outcome # "Running" THEN half
             ELSE decodeSteps(n - n \div 2, half, data)

\* script.js:188-230  the extraction loop, run until the function returns
decodeLoop(data) ==
    decodeSteps(Len(data) \div 4 + 1,
                [i |-> 0, binaryMessage |-> <<>>, extractedText |-> <<>>,
                 result |-> Running],
                data).result

decodeMessage ==
    IF ~imageData.set
    THEN /\ lastOp' = Op("decode", <<>>, "MissingBuffer",
                 Alert("No image to decode! Please upload an image first.",
                       <<>>), 0)
         /\ UNCHANGED <<imageData, canvas, textContent, binary, str>>
    ELSE LET r == decodeLoop(imageData.data)
         IN  /\ textContent' = IF r.outcome = "NoOutput" THEN textContent
                               ELSE r.textContent
             /\ lastOp' = Op("decode", <<>>, r.outcome, r.alert, r.i)
             /\ UNCHANGED <<imageData, canvas, binary, str>>

(***************************************************************************)
(* handleImageUpload, script.js:237-288                                    *)
(***************************************************************************)
handleImageUpload(file) ==
    IF file.kind = "text"
    THEN /\ lastOp' = Op("upload", <<>>, "NotImage",
                         Alert("Please select a valid image file.", <<>>), 0)
         /\ UNCHANGED <<imageData, canvas, textContent, binary, str>>
    ELSE IF file.kind = "unreadable"
    THEN /\ lastOp' = Op("upload", <<>>, "ReadError",
                 Alert("Error reading the file. Please try again.", <<>>), 0)
         /\ UNCHANGED <<imageData, canvas, textContent, binary, str>>
    ELSE IF file.kind = "corrupt"
    THEN /\ lastOp' = Op("upload", <<>>, "LoadError",
                 Alert("Error loading the image. The file might be corrupted.",
                       <<>>), 0)
         /\ UNCHANGED <<imageData, canvas, textContent, binary, str>>
    ELSE LET drawn == drawImage(file)
         IN  /\ canvas' = drawn
             /\ IF getImageDataThrows(drawn)
                THEN /\ UNCHANGED imageData
                     /\ lastOp' = Op("upload", <<>>, "ProcessError",
                            Alert("Error processing the image. The image might be from another domain or corrupted.",
                                  <<>>), 0)
                ELSE /\ imageData' = getImageData(drawn)
                     /\ lastOp' = Op("upload", <<>>, "Uploaded",
                            Alert("Image uploaded successfully! You can now decode the message.",
                                  <<>>), 0)
             /\ UNCHANGED <<textContent, binary, str>>

(***************************************************************************)
(* downloadImage, script.js:293-313                                        *)
(***************************************************************************)
downloadImage ==
    /\ lastOp' =
          IF ~imageData.set
          THEN Op("download", <<>>, "MissingBuffer",
                  Alert("No image to download! Please generate an image first.",
                        <<>>), 0)
          ELSE IF ~canvas.readable
          THEN Op("download", <<>>, "DownloadError",
                  Alert("Error downloading the image. Please try again.",
                        <<>>), 0)
          ELSE Op("download", <<>>, "Downloaded", NoAlert, 0)
    /\ UNCHANGED <<imageData, canvas, textContent, binary, str>>

(***************************************************************************)
(* The page: state after the load event, and one event per step.           *)
(***************************************************************************)
Init ==
    /\ imageData = NoImageData
    /\ canvas = fillWhite(InitCanvas)
    /\ textContent = <<>>
    /\ lastOp = Op("load", <<>>, "Loaded", NoAlert, 0)
    /\ binary = <<>>
    /\ str = <<>>

Next ==
    \/ \E colors \in [Blocks(canvas) -> Colors] : generateAbstractImage(colors)
    \/ \E message \in Messages : encodeMessage(message)
    \/ decodeMessage
    \/ \E file \in Files : handleImageUpload(file)

Spec == Init /\ [][Next]_vars

\* binaryToString called on its own: every binary string of at most
\* MaxBits digits as the argument
BitStrings == UNION { [1..n -> {0, 1}] : n \in 0..MaxBits }

InitCodec ==
    /\ imageData = NoImageData
    /\ canvas = fillWhite(InitCanvas)
    /\ textContent = <<>>
    /\ lastOp = Op("load", <<>>, "Loaded", NoAlert, 0)
    /\ binary \in BitStrings
    /\ str = <<>>

binaryToStringCall ==
    /\ lastOp.name = "load"
    /\ str' = binaryToString(binary)
    /\ lastOp' = Op("binaryToString", <<>>, "Returned", NoAlert, 0)
    /\ UNCHANGED <<imageData, canvas, textContent, binary>>

NextCodec == binaryToStringCall

SpecCodec == InitCodec /\ [][NextCodec]_vars

\* the same page with the long messages and the other files
NextLong ==
    \/ \E colors \in [Blocks(canvas) -> Colors] : generateAbstractImage(colors)
    \/ \E message \in LongMessages : encodeMessage(message)
    \/ decodeMessage
    \/ \E file \in LongFiles : handleImageUpload(file)
    \/ downloadImage

SpecLong == Init /\ [][NextLong]_vars

(***************************************************************************)
(* Vocabulary of the properties, defined without the script's functions.   *)
(***************************************************************************)
\* number of pixels of an ImageData
Pixels(img) == Len(img.data) \div 4

\* bit length of message + delimiter at 8 bits per character
FramedBits(message) == (Len(message) + 9) * 8

RECURSIVE Pow2(_)
Pow2(n) == IF n = 0 THEN 1 ELSE 2 * Pow2(n - 1)

\* bit k (from 0) of the MSB-first 8-bit encoding of message + delimiter
ExpectedBit(message, k) ==
    ((message \o delimiter)[k \div 8 + 1] \div Pow2(7 - (k % 8))) % 2

\* least significant bit of the red channel of pixel k (from 0)
RedLsb(data, k) == data[4 * k + 1] % 2

\* the character spelled MSB-first by the red LSBs of pixels 8c .. 8c + 7
LsbChar(data, c) ==
    128 * RedLsb(data, 8 * c) + 64 * RedLsb(data, 8 * c + 1)
      + 32 * RedLsb(data, 8 * c + 2) + 16 * RedLsb(data, 8 * c + 3)
      + 8 * RedLsb(data, 8 * c + 4) + 4 * RedLsb(data, 8 * c + 5)
      + 2 * RedLsb(data, 8 * c + 6) + RedLsb(data, 8 * c + 7)

\* the first n characters spelled by the red LSBs
LsbText(data, n) == [c \in 1..n |-> LsbChar(data, c - 1)]

\* the first n characters spelled by the red LSBs end with the delimiter
DelimiterEndsAt(data, n) ==
    /\ n >= 9
    /\ \A q \in 1..9 : LsbChar(data, n - 10 + q) = delimiter[q]

\* the least such n, or 0 when the red LSBs never spell the delimiter
FirstEnd(data) ==
    LET ends == { n \in 1..(Len(data) \div 32) : DelimiterEndsAt(data, n) }
    IN  IF ends = {} THEN 0
        ELSE CHOOSE n \in ends : \A m \in ends : n <= m

\* the part of s before the first occurrence of the delimiter in s
BeforeDelimiter(s) ==
    LET at == { p \in 0..(Len(s) - 9) : SubSeq(s, p + 1, p + 9) = delimiter }
        first == CHOOSE p \in at : \A q \in at : p <= q
    IN  SubSeq(s, 1, first)

AbEndCd == <<97, 98, 124, 124, 124, 69, 78, 68, 124, 124, 124, 99, 100>>

(***************************************************************************)
(* C1  Round trip.                                                         *)
(***************************************************************************)
\* C1: when encodeMessage has just run with a non-empty message M whose
\* framed bit length (len(M) + 9) * 8 is at most the pixel count of the
\* buffer, a decodeMessage that follows ends Found with text exactly M.
C1_RoundTrip ==
    [][ ( /\ lastOp.name = "encode"
          /\ lastOp.message # <<>>
          /\ imageData.set
          /\ FramedBits(lastOp.message) <= Pixels(imageData)
          /\ lastOp'.name = "decode" )
        => ( /\ lastOp'.outcome = "Found"
             /\ textContent' = lastOp.message ) ]_vars

(***************************************************************************)
(* C2  Fail-closed capacity check.                                         *)
(***************************************************************************)
\* C2: whenever encodeMessage rejects a message as too large, its framed
\* bit length exceeds the pixel count it was compared with, and the buffer
\* (and the canvas) are exactly as before the call: nothing was written.
C2_FailClosed ==
    [][ ( /\ lastOp'.name = "encode"
          /\ lastOp'.outcome = "CapacityExceeded" )
        => ( /\ FramedBits(lastOp'.message) > canvas.width * canvas.height
             /\ imageData' = imageData
             /\ canvas' = canvas ) ]_vars

\* a message was rejected as too large for a buffer that holds pixels
C2_Witness ==
    /\ lastOp.name = "encode"
    /\ lastOp.outcome = "CapacityExceeded"
    /\ lastOp.message = <<97, 98, 99>>
    /\ imageData.set
    /\ Pixels(imageData) = 95

(***************************************************************************)
(* C3  Bit isolation.                                                      *)
(***************************************************************************)
\* C3: across every encodeMessage call, whatever its outcome, each red
\* value keeps its upper 7 bits and moves by at most 1, and every green,
\* blue and alpha value is exactly what it was.
C3_BitIsolation ==
    [][ lastOp'.name = "encode"
        => ( /\ Len(imageData'.data) = Len(imageData.data)
             /\ \A j \in 1..Len(imageData.data) :
                   IF (j - 1) % 4 = 0
                   THEN /\ imageData'.data[j] \div 2 = imageData.data[j] \div 2
                        /\ imageData'.data[j] - imageData.data[j] \in {-1, 0, 1}
                   ELSE imageData'.data[j] = imageData.data[j] ) ]_vars

\* "abc" was embedded in the uploaded 12 x 8 picture: the red value of
\* pixel 2 went from 102 to 103 and that of pixel 3 from 153 to 152
C3_Witness ==
    /\ lastOp.name = "encode"
    /\ lastOp.outcome = "Encoded"
    /\ lastOp.message = <<97, 98, 99>>
    /\ imageData.width = 12
    /\ imageData.data[9] = 103
    /\ imageData.data[13] = 152
    /\ imageData.data[10] = (51 * 2 + 85) % 256

(***************************************************************************)
(* C4  Capacity boundary.                                                  *)
(***************************************************************************)
\* C4: encodeMessage, given a buffer of N pixels and a non-empty message,
\* rejects the message as too large if and only if its framed bit length
\* is greater than N.
C4_CapacityBoundary ==
    ( /\ lastOp.name = "encode"
      /\ imageData.set
      /\ lastOp.message # <<>> )
    => ( lastOp.outcome = "CapacityExceeded"
           <=> FramedBits(lastOp.message) > Pixels(imageData) )

(***************************************************************************)
(* C5  Delimiter truncation, earliest match.                               *)
(***************************************************************************)
\* C5: a decodeMessage that ends Found stopped on the pixel that completes
\* the first character after which the decoded text ends with the
\* delimiter, and shows that text minus its last 9 characters; so after an
\* accepted encodeMessage of M, decodeMessage shows only the part of M
\* before the first delimiter in M + delimiter ("ab" for "ab|||END|||cd"),
\* having read no pixel beyond that delimiter.
C5_DelimiterTruncation ==
    [][ /\ ( /\ lastOp'.name = "decode"
             /\ lastOp'.outcome = "Found" )
           => LET n == FirstEnd(imageData'.data)
              IN  /\ n >= 9
                  /\ lastOp'.i = 4 * (8 * n - 1)
                  /\ textContent' = LsbText(imageData'.data, n - 9)
        /\ ( /\ lastOp.name = "encode"
             /\ lastOp.outcome = "Encoded"
             /\ lastOp'.name = "decode" )
           => LET shown == BeforeDelimiter(lastOp.message \o delimiter)
              IN  /\ lastOp'.outcome = "Found"
                  /\ textContent' = shown
                  /\ lastOp'.i = 4 * (8 * (Len(shown) + 9) - 1)
                  /\ lastOp.message = AbEndCd => textContent' = <<97, 98>> ]_vars

\* "ab|||END|||cd" is embedded (pixels 88 .. 175 spell "cd|||END|||") and
\* decodeMessage has shown "ab" after reading 88 pixels
C5_Witness ==
    /\ lastOp.name = "decode"
    /\ lastOp.outcome = "Found"
    /\ textContent = <<97, 98>>
    /\ lastOp.i = 4 * 87
    /\ Pixels(imageData) = 176
    /\ LsbText(imageData.data, 22) = AbEndCd \o delimiter

(***************************************************************************)
(* C6  Exhaustion path.                                                    *)
(***************************************************************************)
\* C6: when decodeMessage has run on a buffer of at least one pixel whose
\* red LSBs never spell a text ending with the delimiter, it read up to the
\* last pixel and ended NotFound showing all the characters it decoded, or
\* Empty when it decoded none; it did not end Found or without an outcome.
C6_Exhaustion ==
    ( /\ lastOp.name = "decode"
      /\ imageData.set
      /\ Pixels(imageData) >= 1
      /\ FirstEnd(imageData.data) = 0 )
    => LET n == Pixels(imageData) \div 8
       IN  /\ lastOp.i = Len(imageData.data) - 4
           /\ IF n > 0
              THEN /\ lastOp.outcome = "NotFound"
                   /\ textContent = PartialPrefix \o LsbText(imageData.data, n)
              ELSE /\ lastOp.outcome = "Empty"
                   /\ textContent = NoReadableText

\* the uploaded 12 x 8 picture, never encoded, was scanned to its last
\* pixel and its 12 garbage characters are shown
C6_Witness ==
    /\ lastOp.name = "decode"
    /\ lastOp.outcome = "NotFound"
    /\ imageData.width = 12
    /\ lastOp.i = 4 * 95
    /\ Len(textContent) = Len(PartialPrefix) + 12
    /\ textContent[Len(PartialPrefix) + 1] = 85

(***************************************************************************)
(* C7  Partial-byte discard.                                               *)
(***************************************************************************)
\* C7: for a binary string of 8k + r digits with 0 < r < 8, binaryToString
\* returns exactly k characters, the ones its first 8k digits spell: the
\* same text it returns for the first 8k digits alone.
C7_PartialByteDiscard ==
    ( /\ lastOp.name = "binaryToString"
      /\ Len(binary) % 8 # 0 )
    => LET k == Len(binary) \div 8
       IN  /\ Len(str) = k
           /\ \A c \in 1..k :
                 str[c] = 128 * binary[8 * c - 7] + 64 * binary[8 * c - 6]
                            + 32 * binary[8 * c - 5] + 16 * binary[8 * c - 4]
                            + 8 * binary[8 * c - 3] + 4 * binary[8 * c - 2]
                            + 2 * binary[8 * c - 1] + binary[8 * c]
           /\ str = binaryToString(SubSeq(binary, 1, 8 * k))

\* "01000001" followed by the three digits "101" gave "A"
C7_Witness ==
    /\ lastOp.name = "binaryToString"
    /\ binary = <<0, 1, 0, 0, 0, 0, 0, 1, 1, 0, 1>>
    /\ str = <<65>>

(***************************************************************************)
(* C8  Precondition rejections.                                            *)
(***************************************************************************)
\* C8: encodeMessage and decodeMessage called while imageData is unset are
\* rejected as MissingBuffer, and encodeMessage called with an empty
\* message on an existing buffer is rejected as EmptyInput; these are the
\* only calls so rejected, and a rejected call leaves imageData, the canvas
\* and the output text as they were, so the same call is rejected again.
C8_PreconditionRejections ==
    [][ /\ ( /\ lastOp'.name \in {"encode", "decode"}
             /\ ~imageData.set )
           => lastOp'.outcome = "MissingBuffer"
        /\ ( /\ lastOp'.name = "encode"
             /\ imageData.set
             /\ lastOp'.message = <<>> )
           => lastOp'.outcome = "EmptyInput"
        /\ lastOp'.outcome = "MissingBuffer"
           => /\ ~imageData.set
              /\ UNCHANGED <<imageData, canvas, textContent>>
        /\ lastOp'.outcome = "EmptyInput"
           => /\ lastOp'.name = "encode"
              /\ lastOp'.message = <<>>
              /\ imageData.set
              /\ UNCHANGED <<imageData, canvas, textContent>> ]_vars

\* an empty message was rejected on an existing buffer
C8_Witness ==
    /\ lastOp.name = "encode"
    /\ lastOp.outcome = "EmptyInput"
    /\ lastOp.message = <<>>
    /\ imageData.set

(***************************************************************************)
(* C9  Embedding layout.                                                   *)
(***************************************************************************)
\* C9: after an encodeMessage that ends with its success message, with L
\* the framed bit length, the red LSB of pixel k is bit k of the MSB-first
\* 8-bit encoding of message + delimiter for every k < L, and every channel
\* of every pixel from L on is as before the call.
C9_EmbeddingLayout ==
    [][ ( /\ lastOp'.name = "encode"
          /\ lastOp'.outcome = "Encoded" )
        => LET L == FramedBits(lastOp'.message)
           IN  /\ Len(imageData'.data) = Len(imageData.data)
               /\ Pixels(imageData') >= L
               /\ \A k \in 0..(L - 1) :
                     RedLsb(imageData'.data, k) = ExpectedBit(lastOp'.message, k)
               /\ \A j \in (4 * L + 1)..Len(imageData.data) :
                     imageData'.data[j] = imageData.data[j] ]_vars

\* "\x00\xFF" (88 bits) was embedded in the uploaded 12 x 8 picture, whose
\* pixels 88 .. 95 lie beyond the message
C9_Witness ==
    /\ lastOp.name = "encode"
    /\ lastOp.outcome = "Encoded"
    /\ lastOp.message = <<0, 255>>
    /\ Pixels(imageData) = 96
    /\ imageData.data[4 * 88 + 1] = (51 * 88) % 256

(***************************************************************************)
(* C10  Capacity is the pixel count of the buffer.                         *)
(***************************************************************************)
\* C10: whenever a buffer exists, canvas.width * canvas.height, the value
\* encodeMessage compares the bit length with, is the pixel count of
\* imageData.
C10_CapacityIsBufferPixelCount ==
    imageData.set => canvas.width * canvas.height = Pixels(imageData)

====
